---------------------------- MODULE Spec2Model ----------------------------
(***************************************************************************)
(* ub::BuddyAllocator<MAX_POWER> (include/BuddyAllocator.h) as a state     *)
(* machine over a byte-addressed memory.                                   *)
(*                                                                         *)
(* Pointers are integer addresses, nullptr is 0.  The free-list links and  *)
(* the order bytes live in the modelled bytes of m_buffer exactly where    *)
(* the code puts them: a link is PTR_SIZE little-endian bytes at the       *)
(* start of a free block, the order of a block is the byte at block - 1.   *)
(* uint32_t values are pairs <<hi, lo>> of 16-bit halves, so that the      *)
(* 32-bit width of size + 1 and of 1U << result is kept.                   *)
(***************************************************************************)
EXTENDS Integers, Sequences, FiniteSets, TLC

(***************************************************************************)
(* Template parameter and platform constants.                              *)
(***************************************************************************)
\* BuddyAllocator<MAX_POWER>: log2 of the managed buffer size.
MAX_POWER == 6

\* sizeof(void*) on the 64-bit target.
PTR_SIZE == 8

\* Address of m_buffer[0]: a multiple of ALIGNMENT = 8, not of the buffer
\* size.
BaseAddr == 280

NULL == 0

\* Stands for every pointer value outside the modelled address space.
WILD == -1

\* 1 << n for the shift counts that keep the result an int of the model.
RECURSIVE Pow2Rec(_)
Pow2Rec(n) == IF n <= 0 THEN 1 ELSE 2 * Pow2Rec(n - 1)

Pow2Table == [n \in 0 .. 30 |-> Pow2Rec(n)]

Pow2(n) == IF n <= 0 THEN 1 ELSE Pow2Table[n]

Max(a, b) == IF a > b THEN a ELSE b

Min(a, b) == IF a < b THEN a ELSE b

(***************************************************************************)
(* uint32_t arithmetic on <<hi, lo>> pairs of 16-bit halves.               *)
(***************************************************************************)
Half == 65536

U32FromNat(n) == <<n \div Half, n % Half>>

U32Zero == <<0, 0>>

\* size + 1 in uint32_t: wraps to 0 at 2^32.
U32Add1(x) ==
    IF x[2] < Half - 1 THEN <<x[1], x[2] + 1>>
    ELSE IF x[1] < Half - 1 THEN <<x[1] + 1, 0>>
    ELSE U32Zero

U32Less(a, b) == \/ a[1] < b[1]
                 \/ a[1] = b[1] /\ a[2] < b[2]

\* 1U << n for a shift count below the width of unsigned.
U32Shl1(n) == IF n < 16 THEN <<0, Pow2(n)>> ELSE <<Pow2(n - 16), 0>>

\* 1U << result.  A shift count of 32 or more is undefined: the builds
\* either mask the count to five bits (x86) or shift everything out (ARM).
ShlOutcomes(result) ==
    IF result < 32 THEN {U32Shl1(result)}
    ELSE {U32Shl1(result % 32), U32Zero}

(***************************************************************************)
(* log2 (lines 46-54).  DIVERGES: the loop reached the undefined shift,    *)
(* after which no outcome of the shift ends it (see S_Log2).               *)
(***************************************************************************)
DIVERGES == -1

RECURSIVE log2_loop(_, _)
log2_loop(result, size) ==
    IF result >= 32 THEN DIVERGES
    ELSE IF U32Less(U32Shl1(result), size) THEN log2_loop(result + 1, size)
    ELSE result

log2(size) == log2_loop(0, size)

MIN_ORDER == log2(U32FromNat(PTR_SIZE + 1))

MAX_ORDER == MAX_POWER

BufSize == Pow2(MAX_ORDER)

\* Bytes of the object the allocator touches: m_buffer and the byte before it.
Addrs == (BaseAddr - 1) .. (BaseAddr + BufSize - 1)

\* Index set of m_freelists[MAX_ORDER - MIN_ORDER + 1].
FLIndex == 0 .. (MAX_ORDER - MIN_ORDER)

(***************************************************************************)
(* Byte-level access.  A load outside the modelled bytes reads 0, a store  *)
(* outside them is dropped; acc (below) records that it happened.          *)
(***************************************************************************)
Load(m, a) == IF a \in DOMAIN m THEN m[a] ELSE 0

RECURSIVE ShiftR8(_, _)
ShiftR8(v, i) == IF i = 0 THEN v ELSE ShiftR8(v \div 256, i - 1)

\* Byte i of the little-endian representation of pointer p.
PtrByte(p, i) == ShiftR8(p, i) % 256

PtrCells(a) == a .. (a + PTR_SIZE - 1)

\* *reinterpret_cast<uint8_t**>(a)
ReadPtr(m, a) ==
    IF \E i \in 3 .. (PTR_SIZE - 1) : Load(m, a + i) # 0 THEN WILD
    ELSE Load(m, a) + 256 * Load(m, a + 1) + 65536 * Load(m, a + 2)

RECURSIVE WriteBytes(_, _, _, _)
WriteBytes(m, a, p, i) ==
    IF i = PTR_SIZE THEN m
    ELSE WriteBytes(IF a + i \in DOMAIN m
                    THEN [m EXCEPT ![a + i] = PtrByte(p, i)] ELSE m,
                    a, p, i + 1)

\* *reinterpret_cast<uint8_t**>(a) = p
WritePtr(m, a, p) == WriteBytes(m, a, p, 0)

StoreByte(m, a, v) == IF a \in DOMAIN m THEN [m EXCEPT ![a] = v] ELSE m

(***************************************************************************)
(* buddy_of (lines 164-169): base + ((ptr - base) ^ (1U << order)).        *)
(***************************************************************************)
RECURSIVE BitXor(_, _)
BitXor(a, b) ==
    IF a = 0 THEN b
    ELSE IF b = 0 THEN a
    ELSE ((a + b) % 2) + 2 * BitXor(a \div 2, b \div 2)

\* buddy_of on the address instead of the offset from base.
buddy_of_raw(ptr, order) ==
    IF ptr < BaseAddr \/ order > 30 THEN WILD
    ELSE BitXor(ptr, Pow2(order))

buddy_of(ptr, order) ==
    IF ptr < BaseAddr \/ order > 30 THEN WILD
    ELSE BaseAddr + BitXor(ptr - BaseAddr, Pow2(order))

(***************************************************************************)
(* State.                                                                  *)
(***************************************************************************)
VARIABLES
    m_freelists,   \* uint8_t* m_freelists[], indexed by order - MIN_ORDER
    mem,           \* the bytes of m_buffer and the byte at m_buffer - 1
    live,          \* the caller's outstanding blocks: [ptr, size]
    calls,         \* calls made so far that changed the state
    pc,            \* position inside a running alloc ("idle": none)
    frame          \* the locals of the running alloc

vars == <<m_freelists, mem, live, calls, pc, frame>>

NoFrame == [size |-> U32Zero, arg |-> U32Zero, result |-> 0, order |-> 0,
            index |-> 0, block |-> NULL]

\* The byte before m_buffer is padding after m_dummy: its initial value
\* is indeterminate.
PadInit == {0, 255}

\* m_freelists after the constructor (lines 68-73, 173).
FreshLists ==
    [i \in FLIndex |-> IF i = MAX_ORDER - MIN_ORDER THEN BaseAddr ELSE NULL]

\* Constructor (lines 68-73); m_freelists{}, m_buffer{} are zeroed.
Init ==
    /\ m_freelists = FreshLists
    /\ \E pad \in PadInit :
          mem = [a \in Addrs |-> IF a = BaseAddr - 1 THEN pad ELSE 0]
    /\ live = {}
    /\ calls = 0
    /\ pc = "idle"
    /\ frame = NoFrame

(***************************************************************************)
(* alloc (lines 78-118) as a function of the allocator state.  The result  *)
(* carries the returned pointer, the new free-list heads and memory, and   *)
(* acc, the addresses read or written through block, buddy or link         *)
(* pointers.  Each operator is one stretch of the code and hands its       *)
(* locals to the next.                                                     *)
(***************************************************************************)
\* Line 81: std::max(MIN_ORDER, log2(size + 1)), size + 1 in uint32_t.
alloc_order(size) == Max(MIN_ORDER, log2(U32Add1(size)))

\* alloc_scan that stops one list short of the top one.
RECURSIVE alloc_scan_short(_, _)
alloc_scan_short(fl, index) ==
    IF fl[index - MIN_ORDER] = NULL /\ index < MAX_ORDER - 1
    THEN alloc_scan_short(fl, index + 1)
    ELSE index

\* alloc_scan that looks at the list of the needed order only.
alloc_scan_none(fl, index) == index

\* Lines 90-96: the first order >= order whose list is not empty, or
\* MAX_ORDER.
RECURSIVE alloc_scan(_, _)
alloc_scan(fl, index) ==
    IF fl[index - MIN_ORDER] = NULL /\ index < MAX_ORDER
    THEN alloc_scan(fl, index + 1)
    ELSE index

\* alloc_push that keeps the link in the last bytes of the buddy.
alloc_push_back(st, buddy, i) ==
    [fl  |-> [st.fl EXCEPT ![i - MIN_ORDER] = buddy],
     mem |-> WritePtr(st.mem, buddy + Pow2(i) - PTR_SIZE,
                      st.fl[i - MIN_ORDER]),
     acc |-> st.acc \cup PtrCells(buddy + Pow2(i) - PTR_SIZE)]

\* Lines 109-112: push buddy onto list i.
alloc_push(st, buddy, i) ==
    [fl  |-> [st.fl EXCEPT ![i - MIN_ORDER] = buddy],
     mem |-> WritePtr(st.mem, buddy, st.fl[i - MIN_ORDER]),
     acc |-> st.acc \cup PtrCells(buddy)]

\* alloc_split that pushes nothing: the upper halves are lost.
alloc_split_drop(st, block, index, order) == st

\* alloc_split that pushes the first upper half only.
alloc_split_once(st, block, index, order) ==
    IF index > order
    THEN alloc_push(st, buddy_of(block, index - 1), index - 1)
    ELSE st

\* Lines 106-113: push the upper halves onto their lists.
RECURSIVE alloc_split(_, _, _, _)
alloc_split(st, block, index, order) ==
    IF index > order
    THEN alloc_split(alloc_push(st, buddy_of(block, index - 1), index - 1),
                     block, index - 1, order)
    ELSE st

\* alloc_finish that keeps the order in the first byte of the block and
\* returns the byte after it.
alloc_finish_inside(st, block, order) ==
    [ret |-> block + 1,
     fl  |-> st.fl,
     mem |-> StoreByte(st.mem, block, order),
     acc |-> st.acc \cup {block}]

\* Lines 115-117: store the order, return the block.
alloc_finish(st, block, order) ==
    [ret |-> block,
     fl  |-> st.fl,
     mem |-> StoreByte(st.mem, block - 1, order),
     acc |-> st.acc \cup {block - 1}]

\* alloc_take without line 105: the head stays on its list.
alloc_take_nopop(fl, m, order, index, block) ==
    IF block = NULL THEN [ret |-> NULL, fl |-> fl, mem |-> m, acc |-> {}]
    ELSE alloc_finish(
             alloc_split([fl |-> fl, mem |-> m, acc |-> {}],
                         block, index, order),
             block, order)

\* Lines 98-113: give up, or pop the head of list index and split.
alloc_take(fl, m, order, index, block) ==
    IF block = NULL THEN [ret |-> NULL, fl |-> fl, mem |-> m, acc |-> {}]
    ELSE alloc_finish(
             alloc_split([fl  |-> [fl EXCEPT ![index - MIN_ORDER] =
                                                 ReadPtr(m, block)],
                          mem |-> m,
                          acc |-> PtrCells(block)],
                         block, index, order),
             block, order)

alloc_found(fl, m, order, index) ==
    alloc_take(fl, m, order, index, fl[index - MIN_ORDER])

\* alloc_checked that rejects size 0 only after the block was taken.
alloc_zero_late(r, size) ==
    IF size = U32Zero THEN [r EXCEPT !.ret = NULL] ELSE r

alloc_checked_late(fl, m, size, order) ==
    IF order > MAX_ORDER
    THEN [ret |-> NULL, fl |-> fl, mem |-> m, acc |-> {}]
    ELSE alloc_zero_late(alloc_found(fl, m, order, alloc_scan(fl, order)),
                         size)

\* Lines 83-96.
alloc_checked(fl, m, size, order) ==
    IF size = U32Zero \/ order > MAX_ORDER
    THEN [ret |-> NULL, fl |-> fl, mem |-> m, acc |-> {}]
    ELSE alloc_found(fl, m, order, alloc_scan(fl, order))

alloc(fl, m, size) == alloc_checked(fl, m, size, alloc_order(size))

(***************************************************************************)
(* free (lines 120-161).  ptr, the pointer to pointer of lines 137-140,    *)
(* is a cell: <<"head", i>> for &m_freelists[i], <<"mem", a>> for the      *)
(* link stored at address a.                                               *)
(***************************************************************************)
CellRead(st, cell) ==
    IF cell[1] = "head" THEN st.fl[cell[2]] ELSE ReadPtr(st.mem, cell[2])

CellWrite(st, cell, p) ==
    IF cell[1] = "head"
    THEN [st EXCEPT !.fl = [@ EXCEPT ![cell[2]] = p]]
    ELSE [st EXCEPT !.mem = WritePtr(@, cell[2], p)]

CellAddrs(cell) == IF cell[1] = "head" THEN {} ELSE PtrCells(cell[2])

\* A list of distinct blocks has at most this many entries; a longer walk
\* never ends.
MaxWalk == BufSize \div Pow2(MIN_ORDER)

\* Lines 137-141: walk the list until *ptr is null or the buddy.
RECURSIVE free_find(_, _, _, _, _)
free_walk(st, cell, buddy, acc, fuel, val) ==
    IF val # NULL /\ val # buddy
    THEN IF fuel = 0 \/ val \notin DOMAIN st.mem
         THEN [cell |-> cell, val |-> val, acc |-> acc \cup {val},
               ok |-> FALSE]
         ELSE free_find(st, <<"mem", val>>, buddy, acc, fuel - 1)
    ELSE [cell |-> cell, val |-> val, acc |-> acc, ok |-> TRUE]

free_find(st, cell, buddy, acc, fuel) ==
    free_walk(st, cell, buddy, acc \cup CellAddrs(cell), fuel,
              CellRead(st, cell))

\* free_push without line 147: the block keeps the bytes it held.
free_push_nolink(st, block, order) ==
    [st EXCEPT !.fl  = [@ EXCEPT ![order - MIN_ORDER] = block],
               !.acc = @ \cup PtrCells(block)]

\* free_push that links the block in behind the head of a list that is
\* not empty.
free_push_behind(st, block, order) ==
    IF st.fl[order - MIN_ORDER] = NULL
    THEN [st EXCEPT !.mem = WritePtr(@, block, NULL),
                    !.fl  = [@ EXCEPT ![order - MIN_ORDER] = block],
                    !.acc = @ \cup PtrCells(block)]
    ELSE [st EXCEPT !.mem = WritePtr(
                                WritePtr(@, block,
                                         ReadPtr(@, st.fl[order - MIN_ORDER])),
                                st.fl[order - MIN_ORDER], block),
                    !.acc = @ \cup PtrCells(block)
                              \cup PtrCells(st.fl[order - MIN_ORDER])]

\* Lines 146-149: the buddy is not free, push block onto list order.
free_push(st, block, order) ==
    [st EXCEPT !.mem = WritePtr(@, block, st.fl[order - MIN_ORDER]),
               !.fl  = [@ EXCEPT ![order - MIN_ORDER] = block],
               !.acc = @ \cup PtrCells(block)]

\* free_unlink without the store of line 154: the buddy stays on its list.
free_unlink_keep(st, f) ==
    [st EXCEPT !.acc = @ \cup PtrCells(f.val), !.merges = @ + 1]

\* Line 154: *ptr = *reinterpret_cast<uint8_t**>(*ptr); the block and its
\* buddy are now one block (merges counts these).
free_unlink(st, f) ==
    [CellWrite(st, f.cell, ReadPtr(st.mem, f.val))
        EXCEPT !.acc = @ \cup PtrCells(f.val), !.merges = @ + 1]

\* Lines 132-160.  ub: the call indexed m_freelists out of range or walked
\* a list that does not end in the buffer.  order: the loop variable of the
\* last iteration.
RECURSIVE free_loop(_, _, _)
\* free_merge with line 158 taking the higher of block and buddy.
free_merge_max(st, block, order, buddy, f) ==
    IF ~f.ok THEN [st EXCEPT !.acc = @ \cup f.acc, !.ub = TRUE]
    ELSE IF f.val = NULL
    THEN free_push([st EXCEPT !.acc = @ \cup f.acc], block, order)
    ELSE free_loop(free_unlink([st EXCEPT !.acc = @ \cup f.acc], f),
                   Max(block, buddy), order + 1)

\* free_merge that pushes the block whether or not its buddy is free.
free_merge_never(st, block, order, buddy, f) ==
    IF ~f.ok THEN [st EXCEPT !.acc = @ \cup f.acc, !.ub = TRUE]
    ELSE free_push([st EXCEPT !.acc = @ \cup f.acc], block, order)

free_merge(st, block, order, buddy, f) ==
    IF ~f.ok THEN [st EXCEPT !.acc = @ \cup f.acc, !.ub = TRUE]
    ELSE IF f.val = NULL
    THEN free_push([st EXCEPT !.acc = @ \cup f.acc], block, order)
    ELSE free_loop(free_unlink([st EXCEPT !.acc = @ \cup f.acc], f),
                   Min(block, buddy), order + 1)

\* free_search that reads the link of the buddy before it walks the list.
free_search_peek(st, block, order, buddy) ==
    free_merge([st EXCEPT !.acc = @ \cup PtrCells(buddy)], block, order,
               buddy,
               free_find(st, <<"head", order - MIN_ORDER>>, buddy, {},
                         MaxWalk))

\* Lines 135-141.
free_search(st, block, order, buddy) ==
    free_merge(st, block, order, buddy,
               free_find(st, <<"head", order - MIN_ORDER>>, buddy, {},
                         MaxWalk))

free_loop(st, block, order) ==
    IF order < MIN_ORDER \/ order > MAX_ORDER
    THEN [st EXCEPT !.ub = TRUE, !.order = order]
    ELSE free_search([st EXCEPT !.order = order], block, order,
                     buddy_of(block, order))

free(fl, m, pointer) ==
    IF pointer = NULL
    THEN [fl |-> fl, mem |-> m, acc |-> {}, ub |-> FALSE, merges |-> 0,
          order |-> 0]
    ELSE free_loop([fl |-> fl, mem |-> m, acc |-> {pointer - 1},
                    ub |-> FALSE, merges |-> 0, order |-> 0],
                   pointer, Load(m, pointer - 1))

(***************************************************************************)
(* The caller: the sizes it asks for, the bytes it writes.                 *)
(***************************************************************************)
\* (1 << i) - 1 for every order i, the sizes of test.cpp line 46.
TestSizes == {U32FromNat(Pow2(i) - 1) : i \in MIN_ORDER .. MAX_ORDER}

\* 0xFFFFFFFF, where size + 1 wraps to 0.
U32Max == <<Half - 1, Half - 1>>

\* 0x80000000, where size + 1 exceeds every 1U << result.
U32Top == <<Half \div 2, 0>>

\* The sizes the caller asks for: the test's sizes, 0 and 1 << MAX_ORDER
\* (test.cpp lines 39-40) and a single byte.
Sizes ==
    TestSizes \cup {U32Zero, U32FromNat(1), U32FromNat(Pow2(MAX_ORDER))}

\* The sizes of a stepwise alloc: those of Sizes, the overflowing sizes and
\* the sizes next to them.
StepSizes ==
    Sizes \cup {U32Top, U32Max}
          \cup {<<Half \div 2 - 1, Half - 1>>, <<Half - 1, Half - 2>>}

\* The caller makes at most this many calls that change the state.
MaxCalls == 6

\* Byte values the caller fills its blocks with (test.cpp line 58).
Patterns == {255}

\* The size bytes starting at ptr all lie in m_buffer.
InBuffer(b) ==
    /\ b.size[1] = 0
    /\ b.ptr >= BaseAddr
    /\ b.ptr + b.size[2] <= BaseAddr + BufSize

\* The bytes [ptr, ptr + size) of a block, as far as they lie in the object.
InPayload(b, a) ==
    /\ a >= b.ptr
    /\ b.size[1] = 0 => a < b.ptr + b.size[2]

Payload(b) == {a \in Addrs : InPayload(b, a)}

\* std::memset(b.ptr, pat, b.size)
memset(m, b, pat) ==
    [a \in DOMAIN m |-> IF InPayload(b, a) THEN pat ELSE m[a]]

(***************************************************************************)
(* Actions: one per call.                                                  *)
(***************************************************************************)
AllocDone(r, size) ==
    /\ r.ret # NULL => calls < MaxCalls
    /\ m_freelists' = r.fl
    /\ mem' = r.mem
    /\ live' = IF r.ret = NULL THEN live
               ELSE live \cup {[ptr |-> r.ret, size |-> size]}
    /\ calls' = IF r.ret = NULL THEN calls ELSE calls + 1

\* p = pool.alloc(size); a block that was returned is recorded as live.
\* A call whose log2 never returns has no next state.
Alloc(size) ==
    /\ pc = "idle"
    /\ log2(U32Add1(size)) # DIVERGES
    /\ AllocDone(alloc(m_freelists, mem, size), size)
    /\ UNCHANGED <<pc, frame>>

FreeDone(r) ==
    /\ m_freelists' = r.fl
    /\ mem' = r.mem

\* pool.free(b.ptr) on an outstanding block.
Free(b) ==
    /\ pc = "idle"
    /\ b \in live
    /\ calls < MaxCalls
    /\ FreeDone(free(m_freelists, mem, b.ptr))
    /\ live' = live \ {b}
    /\ calls' = calls + 1
    /\ UNCHANGED <<pc, frame>>

\* pool.free(nullptr) (lines 122-125).
FreeNull ==
    /\ pc = "idle"
    /\ FreeDone(free(m_freelists, mem, NULL))
    /\ UNCHANGED <<live, calls, pc, frame>>

\* std::memset(ptr, count, size) on an outstanding block (test.cpp line 58).
Fill(b, pat) ==
    /\ pc = "idle"
    /\ b \in live
    /\ InBuffer(b)
    /\ calls < MaxCalls
    /\ mem' = memset(mem, b, pat)
    /\ mem' # mem
    /\ calls' = calls + 1
    /\ UNCHANGED <<m_freelists, live, pc, frame>>

Next ==
    \/ \E size \in Sizes : Alloc(size)
    \/ \E b \in live : Free(b)
    \/ FreeNull
    \/ \E b \in live : \E pat \in Patterns : Fill(b, pat)

Spec == Init /\ [][Next]_vars

(***************************************************************************)
(* alloc statement by statement, for its termination.  One action per     *)
(* loop iteration or straight-line stretch; free stays one step.           *)
(***************************************************************************)
\* The caller makes at most this many calls when alloc is run stepwise.
MaxStepCalls == 3

\* Line 78: the call; line 81 evaluates size + 1 and enters log2.
S_Call(size) ==
    /\ pc = "idle"
    /\ calls < MaxStepCalls
    /\ pc' = "log2"
    /\ frame' = [NoFrame EXCEPT !.size = size, !.arg = U32Add1(size)]
    /\ calls' = calls + 1
    /\ UNCHANGED <<m_freelists, mem, live>>

\* Lines 48-53: one test of (1U << result) < size, with ++result on a
\* uint8_t, or the return into line 81.
S_Log2 ==
    /\ pc = "log2"
    /\ \E shl \in ShlOutcomes(frame.result) :
          IF U32Less(shl, frame.arg)
          THEN /\ frame' = [frame EXCEPT !.result = (@ + 1) % 256]
               /\ pc' = pc
          ELSE /\ frame' = [frame EXCEPT
                               !.order = Max(MIN_ORDER, frame.result)]
               /\ pc' = "check"
    /\ UNCHANGED <<m_freelists, mem, live, calls>>

\* Lines 84-91.
S_Check ==
    /\ pc = "check"
    /\ IF frame.size = U32Zero \/ frame.order > MAX_ORDER
       THEN /\ pc' = "idle"
            /\ frame' = NoFrame
       ELSE /\ pc' = "scan"
            /\ frame' = [frame EXCEPT
                            !.block = m_freelists[frame.order - MIN_ORDER],
                            !.index = frame.order]
    /\ UNCHANGED <<m_freelists, mem, live, calls>>

\* Lines 92-96: one iteration of the scan, or its end.
S_Scan ==
    /\ pc = "scan"
    /\ IF frame.block = NULL /\ frame.index < MAX_ORDER
       THEN /\ frame' = [frame EXCEPT
                            !.index = @ + 1,
                            !.block = m_freelists[frame.index + 1 - MIN_ORDER]]
            /\ pc' = pc
       ELSE /\ frame' = frame
            /\ pc' = "take"
    /\ UNCHANGED <<m_freelists, mem, live, calls>>

\* Lines 99-105.
S_Take ==
    /\ pc = "take"
    /\ IF frame.block = NULL
       THEN /\ pc' = "idle"
            /\ frame' = NoFrame
            /\ UNCHANGED m_freelists
       ELSE /\ m_freelists' = [m_freelists EXCEPT
                                  ![frame.index - MIN_ORDER] =
                                      ReadPtr(mem, frame.block)]
            /\ pc' = "split"
            /\ frame' = frame
    /\ UNCHANGED <<mem, live, calls>>

\* Lines 110-111: the free list and the link as the push leaves them.
S_Pushed(st) ==
    /\ m_freelists' = st.fl
    /\ mem' = st.mem

\* Lines 106-113: one iteration of the split; lines 116-117 after it.
S_Split ==
    /\ pc = "split"
    /\ IF frame.index > frame.order
       THEN /\ S_Pushed(alloc_push([fl |-> m_freelists, mem |-> mem,
                                    acc |-> {}],
                                   buddy_of(frame.block, frame.index - 1),
                                   frame.index - 1))
            /\ frame' = [frame EXCEPT !.index = @ - 1]
            /\ pc' = pc
            /\ UNCHANGED live
       ELSE /\ mem' = StoreByte(mem, frame.block - 1, frame.order)
            /\ live' = live \cup {[ptr |-> frame.block, size |-> frame.size]}
            /\ pc' = "idle"
            /\ frame' = NoFrame
            /\ UNCHANGED m_freelists
    /\ UNCHANGED calls

\* pool.free(b.ptr) between two calls of alloc.
S_Free(b) ==
    /\ pc = "idle"
    /\ calls < MaxStepCalls
    /\ b \in live
    /\ FreeDone(free(m_freelists, mem, b.ptr))
    /\ live' = live \ {b}
    /\ calls' = calls + 1
    /\ UNCHANGED <<pc, frame>>

\* The statements of a call in progress.
Running == S_Log2 \/ S_Check \/ S_Scan \/ S_Take \/ S_Split

NextSteps ==
    \/ \E size \in StepSizes : S_Call(size)
    \/ S_Log2
    \/ S_Check
    \/ S_Scan
    \/ S_Take
    \/ S_Split
    \/ \E b \in live : S_Free(b)

\* A call in progress keeps executing.
SpecSteps == Init /\ [][NextSteps]_vars /\ WF_vars(Running)

(***************************************************************************)
(* Properties.                                                             *)
(***************************************************************************)
LivePtrs == {b.ptr : b \in live}

\* order(p): the byte at p - 1.
RecordedOrder(p) == Load(mem, p - 1)

\* 1 << k; k is capped so that the size of a block with a corrupt order
\* byte stays a number.
OrderSize(k) == Pow2(Min(k, 30))

\* One past the last byte of the block at p, as sized by its recorded order.
BlockEnd(p) == p + OrderSize(RecordedOrder(p))

\* alloc(size) returns in the current state.
Returns(size) == log2(U32Add1(size)) # DIVERGES

\* C1: no two live allocations have the same pointer, no two live blocks
\* [p, p + (1 << order(p))) overlap, and alloc called in the current state
\* does not return a pointer that is live.
C1_Disjointness ==
    /\ \A a \in live : \A b \in live :
          a # b => /\ a.ptr # b.ptr
                   /\ BlockEnd(a.ptr) <= b.ptr \/ BlockEnd(b.ptr) <= a.ptr
    /\ \A size \in Sizes :
          Returns(size) => alloc(m_freelists, mem, size).ret \notin LivePtrs

\* Three blocks are live after a block was freed or filled.
C1_Witness ==
    /\ Cardinality(live) >= 3
    /\ calls > Cardinality(live)

\* C2: a call of alloc or free leaves the size bytes of every allocation
\* that is live before and after it as they were.
C2_PayloadIsolation ==
    [][live' # live =>
          \A b \in live \cap live' :
             \A a \in Payload(b) : mem'[a] = mem[a]]_vars

\* C3: when every allocation has been freed the free lists are those of a
\* new allocator: the top list holds the block at offset 0, whose link is
\* null, every other list is empty, and alloc((1 << MAX_ORDER) - 1)
\* succeeds.
C3_RoundTrip ==
    live = {} =>
        /\ m_freelists = FreshLists
        /\ ReadPtr(mem, BaseAddr) = NULL
        /\ alloc(m_freelists, mem, U32FromNat(Pow2(MAX_ORDER) - 1)).ret
               = BaseAddr

\* Nothing is live after six calls, and the block at offset 1 << MIN_ORDER
\* has been allocated at order MIN_ORDER: blocks were split and merged.
C3_Witness ==
    /\ live = {}
    /\ calls >= 6
    /\ Load(mem, BaseAddr + Pow2(MIN_ORDER) - 1) = MIN_ORDER

\* The sizes of StepSizes and 1 << i for every order.
WideSizes ==
    StepSizes \cup {U32FromNat(Pow2(i)) : i \in MIN_ORDER .. MAX_ORDER}

\* The sizes of WideSizes with which alloc returns.
ReturningSizes == {size \in WideSizes : Returns(size)}

\* ceil_log2(size + 1) of the mathematical size + 1: the least k with
\* size < 2^k.
CeilLog2Succ(size) ==
    CHOOSE k \in 0 .. 32 :
        /\ k = 32 \/ U32Less(size, U32Shl1(k))
        /\ \A j \in 0 .. (k - 1) : ~U32Less(size, U32Shl1(j))

MathOrder(size) == Max(MIN_ORDER, CeilLog2Succ(size))

OrderByteLaw(r, size) ==
    r.ret # NULL =>
        /\ Load(r.mem, r.ret - 1) = MathOrder(size)
        /\ Load(r.mem, r.ret - 1) >= MIN_ORDER
        /\ Load(r.mem, r.ret - 1) <= MAX_ORDER

\* C4: when alloc(size) returns p, the byte at p - 1 holds
\* max(MIN_ORDER, ceil_log2(size + 1)), which lies in
\* [MIN_ORDER, MAX_ORDER].
C4_OrderByte ==
    \A size \in WideSizes :
        Returns(size) => OrderByteLaw(alloc(m_freelists, mem, size), size)

\* C5 as stated: every returned pointer p has base < p <= base +
\* (1 << MAX_POWER) - 1.
C5_StrictlyAboveBase ==
    \A b \in live :
        BaseAddr < b.ptr /\ b.ptr <= BaseAddr + Pow2(MAX_POWER) - 1

\* C5: every returned pointer p has base <= p <= base + (1 << MAX_POWER) - 1.
C5_Containment ==
    \A b \in live :
        BaseAddr <= b.ptr /\ b.ptr <= BaseAddr + Pow2(MAX_POWER) - 1

\* The first and the last block of order MIN_ORDER are both live.
C5_Witness ==
    /\ BaseAddr \in LivePtrs
    /\ BaseAddr + BufSize - Pow2(MIN_ORDER) \in LivePtrs

\* C6: the offset of every returned pointer p from base is a multiple of
\* 1 << order(p), order(p) being the byte at p - 1.
C6_Alignment ==
    \A b \in live :
        (b.ptr - BaseAddr) % OrderSize(RecordedOrder(b.ptr)) = 0

\* Blocks of two orders are live away from offset 0.
C6_Witness ==
    \E a \in live : \E b \in live :
        /\ a.ptr > BaseAddr
        /\ b.ptr > BaseAddr
        /\ RecordedOrder(a.ptr) = MIN_ORDER
        /\ RecordedOrder(b.ptr) = MIN_ORDER + 1

\* Only alloc(s) has been called, on a new allocator, it has succeeded
\* each time, and it now returns null.
FilledWith(s) ==
    /\ calls = Cardinality(live)
    /\ \A b \in live : b.size = s
    /\ Returns(s)
    /\ alloc(m_freelists, mem, s).ret = NULL

\* s < (1 << MAX_POWER)
BelowBufSize(s) == U32Less(s, U32FromNat(Pow2(MAX_POWER)))

\* C7 as stated: for every s < (1 << MAX_POWER), alloc(s) repeated on a new
\* allocator until it returns null succeeds exactly
\* 1 << (MAX_ORDER - max(MIN_ORDER, ceil_log2(s + 1))) times.
C7_CapacityAnySize ==
    \A s \in WideSizes :
        BelowBufSize(s) /\ FilledWith(s) =>
            Cardinality(live) = Pow2(MAX_ORDER - MathOrder(s))

\* C7: the same for every s with 1 <= s < (1 << MAX_POWER).
C7_Capacity ==
    \A s \in WideSizes \ {U32Zero} :
        BelowBufSize(s) /\ FilledWith(s) =>
            Cardinality(live) = Pow2(MAX_ORDER - MathOrder(s))

\* The buffer has been filled with blocks of order MIN_ORDER.
C7_Witness ==
    /\ FilledWith(U32FromNat(Pow2(MIN_ORDER) - 1))
    /\ Cardinality(live) > 1

\* size + 1, as a number, exceeds 1 << MAX_ORDER.
TooLarge(size) == CeilLog2Succ(size) > MAX_ORDER

\* C8: alloc(size) returns null when size is 0 or size + 1, as a number,
\* exceeds 1 << MAX_ORDER.
C8_Rejection ==
    \A size \in WideSizes :
        Returns(size) /\ (size = U32Zero \/ TooLarge(size)) =>
            alloc(m_freelists, mem, size).ret = NULL

FailureLeaves(r) ==
    r.ret = NULL => r.fl = m_freelists /\ r.mem = mem

\* C9: an alloc that returns null leaves every free-list head and every
\* byte of the buffer as it was.
C9_FailureUnchanged ==
    \A size \in ReturningSizes :
        FailureLeaves(alloc(m_freelists, mem, size))

\* alloc fails for lack of a large enough block while smaller blocks are
\* free, and it fails for size 0.
C9_Witness ==
    /\ live # {}
    /\ m_freelists[0] # NULL
    /\ alloc(m_freelists, mem, U32FromNat(Pow2(MIN_ORDER + 1) - 1)).ret = NULL
    /\ alloc(m_freelists, mem, U32Zero).ret = NULL

\* C10: every call of alloc returns.
C10_AllocTerminates == (pc # "idle") ~> (pc = "idle")

(***************************************************************************)
(* The free lists as the links in memory spell them.                       *)
(***************************************************************************)
Orders == MIN_ORDER .. MAX_ORDER

\* The blocks met following the links from p, up to the null pointer; the
\* walk also stops at a pointer outside the buffer and after fuel blocks.
RECURSIVE ListFrom(_, _, _)
ListFrom(m, p, fuel) ==
    IF p = NULL THEN <<>>
    ELSE IF fuel = 0 \/ p < BaseAddr \/ p + PTR_SIZE > BaseAddr + BufSize
    THEN <<p>>
    ELSE <<p>> \o ListFrom(m, ReadPtr(m, p), fuel - 1)

\* Free-list k of the state (fl, m), head first.
ListOf(fl, m, k) == ListFrom(m, fl[k - MIN_ORDER], MaxWalk + 1)

FreeList(k) == ListOf(m_freelists, mem, k)

Entries(l) == {l[i] : i \in 1 .. Len(l)}

\* The blocks of list l, of order k, and the live blocks, as address
\* ranges [lo, hi).
ListBlocks(l, k) ==
    {[lo |-> l[i], hi |-> l[i] + Pow2(k), of |-> <<k, i>>] :
         i \in 1 .. Len(l)}

FreeBlocks == UNION {ListBlocks(FreeList(k), k) : k \in Orders}

LiveBlocks ==
    {[lo |-> b.ptr, hi |-> BlockEnd(b.ptr), of |-> b] : b \in live}

BufferAddrs == BaseAddr .. (BaseAddr + BufSize - 1)

\* Every block lies in the buffer and every byte of the buffer lies in
\* exactly one block.
Tiles(blocks) ==
    /\ \A blk \in blocks :
          blk.lo >= BaseAddr /\ blk.hi <= BaseAddr + BufSize
    /\ \A a \in BufferAddrs :
          Cardinality({blk \in blocks : blk.lo <= a /\ a < blk.hi}) = 1

\* C11: between calls the blocks of the free lists, each of size 1 << k for
\* its list k, and the live blocks, each of size 1 << order(p), are pairwise
\* disjoint and together cover exactly [base, base + (1 << MAX_POWER)).
C11_Tiling == Tiles(FreeBlocks \cup LiveBlocks)

\* Two blocks are live and two free blocks of one order lie apart, after a
\* free.
C11_Witness ==
    /\ Cardinality(live) >= 2
    /\ Len(FreeList(MIN_ORDER)) >= 2
    /\ calls > Cardinality(live) + 1

NoFreeBuddies(l, k) ==
    \A i \in 1 .. Len(l) : \A j \in 1 .. Len(l) :
        l[j] # buddy_of(l[i], k)

\* C12: between calls no list k < MAX_ORDER holds both a block and its
\* buddy, the block at offset (b - base) XOR (1 << k).
C12_FullCoalescing ==
    \A k \in MIN_ORDER .. (MAX_ORDER - 1) : NoFreeBuddies(FreeList(k), k)

\* The block of order MIN_ORDER + 1 at offset 0 is free, its upper half
\* carries the order byte of a block of order MIN_ORDER, and a block is
\* live: two freed buddies were merged, and the merge stopped below the top.
C12_Witness ==
    /\ live # {}
    /\ m_freelists[1] = BaseAddr
    /\ Load(mem, BaseAddr + Pow2(MIN_ORDER) - 1) = MIN_ORDER

WellFormed(l, k) ==
    /\ Len(l) <= MaxWalk
    /\ Cardinality(Entries(l)) = Len(l)
    /\ \A i \in 1 .. Len(l) :
          /\ l[i] >= BaseAddr
          /\ l[i] + Pow2(k) <= BaseAddr + BufSize
          /\ (l[i] - BaseAddr) % Pow2(k) = 0

\* C13: between calls, for every order k the links from head k reach the
\* null pointer without visiting a block twice, and every entry lies in the
\* buffer at an offset that is a multiple of 1 << k.
C13_WellFormedLists == \A k \in Orders : WellFormed(FreeList(k), k)

\* A list of two blocks whose head was pushed by free over a block pushed by
\* a split, next to a live block.
C13_Witness ==
    /\ Len(FreeList(MIN_ORDER)) = 2
    /\ FreeList(MIN_ORDER)[1] < FreeList(MIN_ORDER)[2]
    /\ live # {}

\* r is a successful alloc in the state (fl, m) that popped the head of
\* list k for a request of order n.
PlacedFrom(fl, m, n, k, r) ==
    /\ fl[k - MIN_ORDER] # NULL
    /\ \A j \in n .. (k - 1) : fl[j - MIN_ORDER] = NULL
    /\ r.ret = fl[k - MIN_ORDER]
    /\ ListOf(r.fl, r.mem, k) = Tail(ListOf(fl, m, k))
    /\ \A j \in n .. (k - 1) :
          ListOf(r.fl, r.mem, j) = <<r.ret + Pow2(j)>> \o ListOf(fl, m, j)
    /\ \A j \in Orders :
          j < n \/ j > k => ListOf(r.fl, r.mem, j) = ListOf(fl, m, j)

Placed(fl, m, n, r) ==
    r.ret # NULL => \E k \in n .. MAX_ORDER : PlacedFrom(fl, m, n, k, r)

\* C14: a successful alloc(size), n being max(MIN_ORDER, ceil_log2(size + 1)),
\* pops the head B of list k, the least k >= n whose list is not empty,
\* returns B, pushes B + (1 << j) onto the head of list j for each j from
\* k - 1 down to n, and changes no other list.
C14_Placement ==
    \A size \in WideSizes :
        Returns(size) =>
            Placed(m_freelists, mem, MathOrder(size),
                   alloc(m_freelists, mem, size))

\* test.cpp's smallest request and the largest request of order MIN_ORDER.
OneByte == U32FromNat(1)

MinBlockFill == U32FromNat(Pow2(MIN_ORDER) - 1)

\* alloc(1) on a new allocator returns base + first, and alloc((1 <<
\* MIN_ORDER) - 1) called next returns base + second.
SplitScenario(first, second) ==
    /\ calls = 0 => alloc(m_freelists, mem, OneByte).ret = BaseAddr + first
    /\ calls = 1 /\ (\E b \in live : b.size = OneByte) =>
          /\ live = {[ptr |-> BaseAddr + first, size |-> OneByte]}
          /\ alloc(m_freelists, mem, MinBlockFill).ret = BaseAddr + second

\* C15 as stated: on a new allocator alloc(1) returns the pointer at offset
\* 1 and the alloc((1 << MIN_ORDER) - 1) that follows returns the pointer at
\* offset 1 << MIN_ORDER.
C15_OffsetOne == SplitScenario(1, Pow2(MIN_ORDER))

\* C15: on a new allocator alloc(1) returns the pointer at offset 0 and the
\* alloc((1 << MIN_ORDER) - 1) that follows returns the pointer at offset
\* 1 << MIN_ORDER.
C15_SplitTieBreak == SplitScenario(0, Pow2(MIN_ORDER))

\* The two calls of the scenario have been made.
C15_Witness ==
    /\ calls = 2
    /\ live = {[ptr |-> BaseAddr, size |-> OneByte],
               [ptr |-> BaseAddr + Pow2(MIN_ORDER), size |-> MinBlockFill]}

\* For each order k, the sizes of ReturningSizes whose request needs order k.
SizesByOrder ==
    [k \in Orders |-> {size \in ReturningSizes : MathOrder(size) = k}]

SizesOfOrder(k) == IF k \in Orders THEN SizesByOrder[k] ELSE {}

\* The buddy of p at order k is not on list k.
BuddyNotFree(p, k) == buddy_of(p, k) \notin Entries(FreeList(k))

\* r is free(p): it merged nothing, and every alloc(size), size in sizes,
\* called next returns p.
Reused(r, p, sizes) ==
    /\ r.merges = 0
    /\ \A size \in sizes : alloc(r.fl, r.mem, size).ret = p

\* C16 as stated: when free(p) on a live block of order k finds the buddy
\* of p not free, it pushes p without merging and the alloc of needed order
\* k that follows returns p.
C16_LifoAnySize ==
    \A b \in live :
        BuddyNotFree(b.ptr, RecordedOrder(b.ptr)) =>
            Reused(free(m_freelists, mem, b.ptr), b.ptr,
                   SizesOfOrder(RecordedOrder(b.ptr)))

\* C16: the same for the alloc(s) of needed order k with s >= 1.
C16_LifoReuse ==
    \A b \in live :
        BuddyNotFree(b.ptr, RecordedOrder(b.ptr)) =>
            Reused(free(m_freelists, mem, b.ptr), b.ptr,
                   SizesOfOrder(RecordedOrder(b.ptr)) \ {U32Zero})

\* A live block whose buddy is not free while its list holds another
\* block: alloc would return that block now and returns p after free(p).
C16_Witness ==
    \E b \in live :
        /\ RecordedOrder(b.ptr) = MIN_ORDER
        /\ BuddyNotFree(b.ptr, MIN_ORDER)
        /\ m_freelists[0] # NULL
        /\ alloc(m_freelists, mem, OneByte).ret # b.ptr
        /\ Reused(free(m_freelists, mem, b.ptr), b.ptr, {OneByte})

\* r is free(p) for a live block of order k: the loop variable stayed in
\* [MIN_ORDER, MAX_ORDER], at most MAX_ORDER - k merges were made, and when
\* the loop reached MAX_ORDER the block at offset 0 was installed as the
\* only entry of the top list.
Bounded(r, k) ==
    /\ ~r.ub
    /\ r.order \in Orders
    /\ r.merges <= MAX_ORDER - k
    /\ r.order = k + r.merges
    /\ r.order = MAX_ORDER =>
          ListOf(r.fl, r.mem, MAX_ORDER) = <<BaseAddr>>

\* C17: in every free(p) on a live pointer the loop variable order stays in
\* [MIN_ORDER, MAX_ORDER], the loop ends after at most MAX_ORDER - order(p)
\* merges, and when order reaches MAX_ORDER the buddy search fails and the
\* block at offset 0 becomes the only entry of the top list.
C17_CoalescingBound ==
    \A b \in live :
        Bounded(free(m_freelists, mem, b.ptr), RecordedOrder(b.ptr))

\* The free of the last live block, of order MIN_ORDER and away from offset
\* 0, merges at every order up to MAX_ORDER.
C17_Witness ==
    \E b \in live :
        /\ live = {b}
        /\ b.ptr > BaseAddr
        /\ RecordedOrder(b.ptr) = MIN_ORDER
        /\ free(m_freelists, mem, b.ptr).merges = MAX_ORDER - MIN_ORDER

\* The order alloc wrote at b.ptr - 1 when it returned b (line 116).
AllocatedOrder(b) == alloc_order(b.size)

\* r is free(p): the order it read at line 130.
OrderRead(r) == r.order - r.merges

\* C18: for every live allocation p the byte at p - 1 holds, in every state
\* until free(p), the order written when p was allocated: no link write and
\* no order-byte write of another block changes it, and free(p) reads that
\* order.
C18_OrderBytePersists ==
    \A b \in live :
        /\ RecordedOrder(b.ptr) = AllocatedOrder(b)
        /\ OrderRead(free(m_freelists, mem, b.ptr)) = AllocatedOrder(b)

\* A live block follows a free block, whose link was written after the
\* order byte of the live block, and precedes another live block, whose
\* order byte lies in it.
C18_Witness ==
    \E b \in live : \E c \in live :
        /\ c.ptr = BlockEnd(b.ptr)
        /\ \E blk \in FreeBlocks : blk.hi = b.ptr
        /\ calls > Cardinality(live)

\* The sizes s >= 1 of WideSizes whose needed order is at most MAX_ORDER.
FittingSizes ==
    {size \in WideSizes \ {U32Zero} : MathOrder(size) <= MAX_ORDER}

\* The (1 << n)-aligned regions of size 1 << n of the buffer, by their first
\* address.
Regions(n) ==
    {BaseAddr + i * Pow2(n) : i \in 0 .. (Pow2(MAX_ORDER - n) - 1)}

\* Some live block has a byte in [lo, lo + (1 << n)).
Occupied(lo, n) ==
    \E b \in live : b.ptr < lo + Pow2(n) /\ lo < BlockEnd(b.ptr)

\* The sum of 1 << order(p) over the blocks of S.
RECURSIVE BytesOf(_)
BytesOf(S) ==
    IF S = {} THEN 0
    ELSE (LET b == CHOOSE x \in S : TRUE
          IN  OrderSize(RecordedOrder(b.ptr)) + BytesOf(S \ {b}))

Unavoidable(r, n) ==
    r.ret = NULL => \A lo \in Regions(n) : Occupied(lo, n)

\* C19: alloc(s) with s >= 1 and needed order n <= MAX_ORDER returns null
\* only if every (1 << n)-aligned region of size 1 << n holds a byte of a
\* live block, and alloc(1) succeeds whenever the sizes of the live blocks
\* sum to less than 1 << MAX_ORDER.
C19_NoAvoidableFailure ==
    /\ \A size \in FittingSizes :
          Unavoidable(alloc(m_freelists, mem, size), MathOrder(size))
    /\ BytesOf(live) < Pow2(MAX_ORDER) =>
          alloc(m_freelists, mem, OneByte).ret # NULL

\* alloc fails at order MIN_ORDER + 1 while two blocks of order MIN_ORDER
\* are free, and alloc(1) succeeds.
C19_Witness ==
    /\ Len(FreeList(MIN_ORDER)) >= 2
    /\ alloc(m_freelists, mem, U32FromNat(Pow2(MIN_ORDER + 1) - 1)).ret = NULL
    /\ alloc(m_freelists, mem, OneByte).ret # NULL

\* acc, the addresses a call read or wrote through block, buddy and link
\* pointers, lies in [base - 1, base + (1 << MAX_POWER) - 1], and base - 1
\* is in it only when the call is about the block p at offset 0.
InBounds(acc, p) ==
    /\ \A a \in acc : BaseAddr - 1 <= a /\ a <= BaseAddr + Pow2(MAX_POWER) - 1
    /\ BaseAddr - 1 \in acc => p = BaseAddr

AllocInBounds(r) == InBounds(r.acc, r.ret)

\* C20: every byte that alloc, or free on a live pointer, reads or writes
\* through a block, buddy or link pointer has an offset in
\* [-1, (1 << MAX_POWER) - 1] from base, -1 only as the order byte of the
\* block at offset 0; the buddy address at order MAX_ORDER, one past the
\* end, is never dereferenced.
C20_AccessBounds ==
    /\ \A size \in ReturningSizes :
          AllocInBounds(alloc(m_freelists, mem, size))
    /\ \A b \in live : InBounds(free(m_freelists, mem, b.ptr).acc, b.ptr)

\* The free of the block at offset 0 reads the byte at base - 1 and merges
\* up to MAX_ORDER, where the buddy address is one past the end.
C20_Witness ==
    \E b \in live :
        /\ b.ptr = BaseAddr
        /\ free(m_freelists, mem, b.ptr).order = MAX_ORDER
        /\ free(m_freelists, mem, b.ptr).merges >= 1
        /\ BaseAddr - 1 \in free(m_freelists, mem, b.ptr).acc
        /\ buddy_of(BaseAddr, MAX_ORDER) = BaseAddr + Pow2(MAX_POWER)

=============================================================================
